---- MODULE Spec2Model ----
(***************************************************************************)
(* Model of internal/app/worker/testworker/worker.go: the TestWorker that  *)
(* drains a disk queue into an unbuffered channel (startPull), a pool of   *)
(* work() goroutines, the recursive pipeline executor (runTask / runStep / *)
(* runJob) and the three job handlers, with the unit-test process          *)
(* supervisor (select loop, timer, result channel, runner goroutine).      *)
(***************************************************************************)
EXTENDS Naturals, Sequences, FiniteSets

VARIABLES
    feed,       \* the tasks the coordinator hands to Push, in order (the run's input)
    option,     \* t.option (ParallelWorker)
    coordinator, \* the answers the coordinator's endpoint can give to a report request
    pushed,     \* how many Push calls have been made
    faults,     \* how many storage faults the environment has injected
    queue,      \* t.queue: the goque FIFO of records
    taskChan,   \* t.taskChan: values sent and not yet received (a blocked send included)
    threads,    \* goroutines of the pipeline executor, by id: <<w>> is worker w
    runners,    \* the goroutines started by unitTest (worker.go:351), with their channel
    events,     \* per record, the report requests issued (notifyTaskEvent)
    hist,       \* per record, the calls made and their results, by goroutine of the task
    crashed     \* an unrecovered panic ended the process

vars == <<feed, option, coordinator, pushed, faults, queue, taskChan, threads, runners,
          events, hist, crashed>>

(***************************** bounds **************************************)
MaxPush == 3       \* records pushed in a pool run
MaxFaults == 1     \* storage faults (enqueue error, damaged record) per run
MaxChunks == 1     \* log chunks one unitTest call receives from the printer
PoolSize == 2      \* option.ParallelWorker in a pool run
MaxBadReplies == 2 \* report requests of one record that are not answered properly

(************************ status constants *********************************)
TestTaskStatusRunning == "running"
TestTaskStatusFailed == "failed"
TestTaskStatusSuccess == "success"
TestStepStatusRunning == "running"
TestStepStatusFailed == "failed"
TestStepStatusSuccess == "success"

progressNone == "none"
progressStart == "start"
progressSuccess == "success"
progressFailed == "failed"

StepTypeJob == "Job"
StepTypeSubPipeline == "SubPipeline"
JobGitPull == "GitPull"
JobUnitTest == "UnitTest"
JobCodeCheck == "CodeCheck"

(****************************** errors *************************************)
\* An error value: its kind and the step whose execution created it.
Err(kind, name) == [kind |-> kind, step |-> name]
Nil == Err("nil", "")

(************************* pipeline descriptions ***************************)
\* A pointer field is a sequence: <<>> is nil, <<v>> points to v.
JobStep(name, jobType) ==
    [Name |-> name, Type |-> StepTypeJob,
     JobPayload |-> <<[Type |-> jobType, Payload |-> "ok"]>>, SubPipeline |-> <<>>]
BadPayloadStep(name, jobType) ==
    [Name |-> name, Type |-> StepTypeJob,
     JobPayload |-> <<[Type |-> jobType, Payload |-> "bad"]>>, SubPipeline |-> <<>>]
NilJobStep(name) ==
    [Name |-> name, Type |-> StepTypeJob, JobPayload |-> <<>>, SubPipeline |-> <<>>]
SubStep(name, desc) ==
    [Name |-> name, Type |-> StepTypeSubPipeline, JobPayload |-> <<>>,
     SubPipeline |-> <<desc>>]
NilSubStep(name) ==
    [Name |-> name, Type |-> StepTypeSubPipeline, JobPayload |-> <<>>,
     SubPipeline |-> <<>>]
\* Steps that break the step invariant: a Job step that also has a nested pipeline, a
\* SubPipeline step that also has a payload, a step of another type.
JobWithSubStep(name, jobType, desc) ==
    [Name |-> name, Type |-> StepTypeJob,
     JobPayload |-> <<[Type |-> jobType, Payload |-> "ok"]>>, SubPipeline |-> <<desc>>]
SubWithPayloadStep(name, jobType, desc) ==
    [Name |-> name, Type |-> StepTypeSubPipeline,
     JobPayload |-> <<[Type |-> jobType, Payload |-> "ok"]>>, SubPipeline |-> <<desc>>]
OtherTypeStep(name) ==
    [Name |-> name, Type |-> "Other", JobPayload |-> <<>>, SubPipeline |-> <<>>]
Pipeline(parallel, steps) == [Parallel |-> parallel, Steps |-> steps]
Task(id, desc) == [TaskID |-> id, GitUrl |-> "ok", Desc |-> desc]

RECURSIVE StepAt(_, _)
\* The step reached from pipeline desc by the step indices of path (non-empty).
StepAt(desc, path) ==
    IF Len(path) = 1 THEN desc.Steps[path[1]]
    ELSE StepAt(desc.Steps[path[1]].SubPipeline[1], Tail(path))

\* The pipeline at path: the root for <<>>, else the nested pipeline of that step.
DescAt(desc, path) ==
    IF path = <<>> THEN desc ELSE StepAt(desc, path).SubPipeline[1]

Front(s) == SubSeq(s, 1, Len(s) - 1)
Last(s) == s[Len(s)]
IsPrefix(p, s) == Len(p) <= Len(s) /\ SubSeq(s, 1, Len(p)) = p
\* A goroutine's id within its task: <<>> is the worker's own goroutine, and
\* Append(g, k) the goroutine that g started for step k of a parallel pipeline.
Rel(tid) == Tail(tid)

(****************************** inputs *************************************)
ScenarioA ==
    Task(1, Pipeline(FALSE, <<JobStep("stepA", JobGitPull), JobStep("stepB", JobUnitTest)>>))
ScenarioB ==
    Task(2, Pipeline(TRUE, <<JobStep("stepX", JobGitPull), JobStep("stepY", JobGitPull)>>))
NilJobTask ==
    Task(3, Pipeline(FALSE, <<NilJobStep("stepJ"), JobStep("stepG", JobGitPull)>>))
NilSubTask ==
    Task(4, Pipeline(FALSE, <<NilSubStep("stepS"), JobStep("stepG", JobGitPull)>>))
SmallTask ==
    Task(5, Pipeline(FALSE, <<JobStep("stepG", JobGitPull)>>))

ParallelMixed ==
    Task(6, Pipeline(TRUE, <<JobStep("stepU", JobUnitTest), JobStep("stepG", JobGitPull)>>))
NestedParallel ==
    Task(7, Pipeline(FALSE,
            <<SubStep("stepN", Pipeline(TRUE, <<JobStep("stepX", JobGitPull),
                                                JobStep("stepC", JobCodeCheck)>>)),
              JobStep("stepG", JobGitPull)>>))
NestedSequential ==
    Task(8, Pipeline(TRUE,
            <<JobStep("stepG", JobGitPull),
              SubStep("stepM", Pipeline(FALSE, <<JobStep("stepA", JobGitPull),
                                                 JobStep("stepB", JobGitPull)>>))>>))
BigTask ==
    Task(9, Pipeline(FALSE,
            <<JobStep("stepA", JobGitPull),
              SubStep("stepN", Pipeline(TRUE, <<JobStep("stepU", JobUnitTest),
                                                JobStep("stepC", JobCodeCheck)>>))>>))

PoolTask ==
    Task(10, Pipeline(FALSE,
             <<SubStep("stepN", Pipeline(TRUE, <<JobStep("stepC", JobCodeCheck)>>)),
               JobStep("stepG", JobGitPull),
               JobStep("stepU", JobUnitTest)>>))
\* A pipeline without steps.
EmptyTask == Task(14, Pipeline(FALSE, <<>>))

\* Payloads that json.Unmarshal rejects.
BadPayloadTask ==
    Task(11, Pipeline(TRUE, <<BadPayloadStep("stepG", JobGitPull),
                              BadPayloadStep("stepU", JobUnitTest)>>))

CheckThenPull ==
    Task(12, Pipeline(FALSE, <<JobStep("stepC", JobCodeCheck), JobStep("stepG", JobGitPull)>>))

MalformedTask ==
    Task(13, Pipeline(FALSE,
             <<OtherTypeStep("stepQ"),
               JobWithSubStep("stepJ", JobCodeCheck,
                              Pipeline(FALSE, <<JobStep("stepX", JobGitPull)>>)),
               SubWithPayloadStep("stepS", JobCodeCheck,
                                  Pipeline(FALSE, <<JobStep("stepY", JobGitPull)>>))>>))

PipeTasks == {ScenarioA, ScenarioB, NilJobTask, NilSubTask, SmallTask, ParallelMixed,
              NestedParallel, NestedSequential, BigTask, PoolTask, BadPayloadTask,
              CheckThenPull, MalformedTask, EmptyTask}

\* A pipeline run: one task, one worker.
PipeFeeds == {<<t>> : t \in PipeTasks}
\* A run against a misbehaving coordinator: one task, one worker.
ReportFeeds == {<<PoolTask>>, <<ScenarioA>>}
\* A pool run: MaxPush pushes, the first of a task that uses every handler, the
\* others of one and the same task without steps.
PoolFeeds == {[i \in 1..MaxPush |-> IF i = 1 THEN PoolTask ELSE EmptyTask]}

Workers == 1..option.ParallelWorker
Pids == 1..Len(feed)

(****************************** Reporter ***********************************)
\* The body of one report request; tid and path say which goroutine issued it for
\* which step of the tree.
\* reply is what came back for the request: "ok" (a decodable body with code 0),
\* "transport" (Post returned an error), "undecodable" (the body does not
\* unmarshal) or "code" (a decodable body with a non-zero code).
TaskUpdate(status, msg) ==
    [ev |-> "task", step |-> "", status |-> status, marker |-> progressNone,
     msg |-> msg, tid |-> <<>>, path |-> <<>>, reply |-> "ok"]
StepUpdate(tid, path, name, status, marker, msg) ==
    [ev |-> "step", step |-> name, status |-> status, marker |-> marker,
     msg |-> msg, tid |-> tid, path |-> path, reply |-> "ok"]
\* notifyProgress: a step update whose log text is one progress marker.
Progress(tid, path, name, status, marker, msg) ==
    StepUpdate(tid, path, name, status, marker, msg)

Call(op, tid, path, err) == [op |-> op, tid |-> tid, path |-> path, err |-> err]

Replies == {"ok", "transport", "undecodable", "code"}
BadReplies(evs) == Cardinality({i \in DOMAIN evs : evs[i].reply # "ok"})
\* The answers the coordinator can give to the next n report requests of record pid.
ReplyChoices(pid, n) ==
    {ks \in [1..n -> coordinator] :
        BadReplies(events[pid]) + Cardinality({i \in 1..n : ks[i] # "ok"}) <= MaxBadReplies}
\* notifyTaskEvent, worker.go:231-259, for each of the requests evs: the request is
\* posted and answered; a transport error and an undecodable body are logged, the
\* code of a decoded body is not looked at.
notifyTaskEvent(evs, ks) == [i \in DOMAIN evs |-> [evs[i] EXCEPT !.reply = ks[i]]]
AfterReportsFailing(e, ks) ==
    IF \A i \in DOMAIN ks : ks[i] = "ok" THEN e ELSE Err("Report", "")
\* What a function that issued report requests answered ks goes on with, e being its
\* own result: notifyTaskEvent, notifyTaskUpdate, notifyStepStatus and
\* notifyProgress return nothing (worker.go:231, 261, 268, 378).
AfterReports(e, ks) == e

(******************************* Init **************************************)
InitWith(feeds, workers, replies) ==
    /\ feed \in feeds
    /\ option = [ParallelWorker |-> workers]
    /\ coordinator = replies
    /\ pushed = 0
    /\ faults = 0
    /\ queue = <<>>
    /\ taskChan = <<>>
    /\ threads = [t \in {} |-> Nil]
    /\ runners = {}
    /\ events = [p \in 1..Len(feed) |-> <<>>]
    /\ hist = [p \in 1..Len(feed) |-> {}]
    /\ crashed = FALSE

Init == InitWith(PoolFeeds, PoolSize, {"ok"})
InitPipe == InitWith(PipeFeeds, 1, {"ok"})
\* A run in which the coordinator's endpoint misbehaves.
InitReport == InitWith(ReportFeeds, 1, Replies)

(*************************** Inbox and Push ********************************)
EnqueueFront(q, rec) == <<rec>> \o q
\* goque's EnqueueObjectAsJSON (worker.go:98) adds the record at the queue's tail.
Enqueue(q, rec) == Append(q, rec)

\* Push, worker.go:97-105: EnqueueObjectAsJSON appends one record; on a storage
\* error nothing is enqueued and the error is returned.
Push ==
    /\ ~crashed
    /\ pushed < Len(feed)
    /\ \E fails \in BOOLEAN :
         /\ fails => faults < MaxFaults
         /\ faults' = IF fails THEN faults + 1 ELSE faults
         /\ queue' = IF fails THEN queue
                     ELSE Enqueue(queue, [pid |-> pushed + 1, task |-> feed[pushed + 1],
                                          decodable |-> TRUE])
         /\ hist' = [hist EXCEPT ![pushed + 1] =
                       @ \cup {Call(IF fails THEN "Push.err" ELSE "Push", <<>>, <<>>, Nil)}]
    /\ pushed' = pushed + 1
    /\ UNCHANGED <<feed, option, coordinator, taskChan, threads, runners, events, crashed>>

\* The environment damages a stored record, so that ToObjectFromJSON fails on it.
Damage ==
    /\ ~crashed
    /\ faults < MaxFaults
    /\ \E i \in 1..Len(queue) :
         /\ queue[i].decodable
         /\ queue' = [queue EXCEPT ![i].decodable = FALSE]
    /\ faults' = faults + 1
    /\ UNCHANGED <<feed, option, coordinator, pushed, taskChan, threads, runners, events, hist, crashed>>

(****************************** Dispatcher *********************************)
\* taskChan is made without a buffer at worker.go:69.
TaskChanCap == 0

DispatcherBlockedNever == FALSE
\* startPull is blocked in the send of worker.go:133 until a worker has received.
DispatcherBlocked == Len(taskChan) > TaskChanCap

\* worker.go:109-112: Dequeue returns ErrEmpty; sleep one second and retry.
PullEmpty ==
    /\ ~crashed
    /\ ~DispatcherBlocked
    /\ queue = <<>>
    /\ UNCHANGED vars

\* worker.go:113-118: Dequeue returns another error; sleep ten seconds and retry.
PullIOError ==
    /\ ~crashed
    /\ ~DispatcherBlocked
    /\ UNCHANGED vars

DequeueKeeps(q) == q
\* goque's Dequeue removes the head record (worker.go:109).
Dequeue(q) == Tail(q)

\* worker.go:125-131: the record does not decode; it is logged and dropped.
PullCorrupt ==
    /\ ~crashed
    /\ ~DispatcherBlocked
    /\ queue # <<>>
    /\ ~Head(queue).decodable
    /\ queue' = Dequeue(queue)
    /\ hist' = [hist EXCEPT ![Head(queue).pid] = @ \cup {Call("drop", <<>>, <<>>, Nil)}]
    /\ UNCHANGED <<feed, option, coordinator, pushed, faults, taskChan, threads, runners, events,
                   crashed>>

\* worker.go:109, 125-133: a record is dequeued, decoded and sent on taskChan.
PullTask ==
    /\ ~crashed
    /\ ~DispatcherBlocked
    /\ queue # <<>>
    /\ Head(queue).decodable
    /\ queue' = Dequeue(queue)
    /\ taskChan' = Append(taskChan, [pid |-> Head(queue).pid, task |-> Head(queue).task])
    /\ UNCHANGED <<feed, option, coordinator, pushed, faults, threads, runners, events, hist, crashed>>

(************************** Pipeline Executor ******************************)
\* A runTask activation on a goroutine's stack: the pipeline's path, the loop
\* position i (sequential: the step being run; parallel: the step last assigned
\* to the loop variable), and the errgroup: goroutines done and the first error.
Frame(path) == [path |-> path, i |-> 0, done |-> 0, egErr |-> Nil]

Thread(pid, stack, pc, step, res) ==
    [pid |-> pid, stack |-> stack, pc |-> pc, step |-> step, res |-> res]

\* What one call leaves behind: the goroutine's stack and position (or exit, with
\* the value its outermost function returned), the reports and the calls made.
Effect(stack, pc, step, exit, err, ev, h, panic) ==
    [stack |-> stack, pc |-> pc, step |-> step, exit |-> exit, err |-> err,
     ev |-> ev, h |-> h, panic |-> panic]

StopOnErrorNever(err) == FALSE
\* worker.go:167-170: the sequential loop breaks on the first step error.
StopOnError(err) == err # Nil

RECURSIVE Unwind(_, _, _, _)
\* runStep returned e to its caller on goroutine tid: the sequential loop of the
\* top frame goes on to the next step (worker.go:160,166), or runTask returns
\* (worker.go:173-182) to the runStep that called it (worker.go:199-208), and so
\* on; an empty stack is the end of the goroutine's outermost function.
Unwind(desc, tid, stack, e) ==
    IF stack = <<>> THEN Effect(<<>>, "done", <<>>, TRUE, e, <<>>, {}, FALSE)
    ELSE LET f == Last(stack)
             n == Len(DescAt(desc, f.path).Steps)
         IN  IF StopOnError(e) \/ f.i >= n
             THEN LET r == Unwind(desc, tid, Front(stack), e)
                  IN  [r EXCEPT !.h = @ \cup {Call("runTask.ret", tid, f.path, e)}
                                     \cup (IF f.path = <<>> THEN {}
                                           ELSE {Call("runStep.ret", tid, f.path, e)})]
             ELSE Effect([stack EXCEPT ![Len(stack)].i = f.i + 1], "loop", <<>>,
                         FALSE, Nil, <<>>, {}, FALSE)

\* runStep of the step at path q returns: e is the result of what it called, ev the
\* report requests issued on the way and ks their answers.
StepReturn(desc, tid, stack, q, e, ev, h, ks) ==
    LET res == AfterReports(e, ks)
        r == Unwind(desc, tid, stack, res)
    IN  [r EXCEPT !.ev = notifyTaskEvent(ev, ks) \o @,
                  !.h = h \cup {Call("runStep.ret", tid, q, res)} \cup @]

\* runTask is entered for the pipeline at path (worker.go:158-160).
EnterTask(desc, tid, stack, path) ==
    LET d == DescAt(desc, path)
        h == {Call("runTask", tid, path, Nil)}
    IN  IF Len(d.Steps) = 0
        THEN LET r == Unwind(desc, tid, stack, Nil)
             IN  [r EXCEPT !.h = h \cup {Call("runTask.ret", tid, path, Nil)}
                                   \cup (IF path = <<>> THEN {}
                                         ELSE {Call("runStep.ret", tid, path, Nil)})
                                   \cup @]
        ELSE Effect(Append(stack, [Frame(path) EXCEPT !.i = IF d.Parallel THEN 0 ELSE 1]),
                    "loop", <<>>, FALSE, Nil, <<>>, h, FALSE)

JobPayloadAbsentNever(step) == FALSE
\* worker.go:188: step.JobPayload == nil.
JobPayloadAbsent(step) == step.JobPayload = <<>>

\* worker.go:198,203: step.SubPipeline is nil.
SubPipelineAbsent(step) == step.SubPipeline = <<>>

\* runJob, worker.go:211-223: the start marker, then the handler of the payload's
\* type is entered; a nil payload is dereferenced at worker.go:214.
RunJob(desc, tid, stack, q, ks) ==
    LET step == StepAt(desc, q)
        h == {Call("runJob", tid, q, Nil)}
        start == <<Progress(tid, q, step.Name, TestTaskStatusRunning, progressStart, Nil)>>
    IN  IF step.JobPayload = <<>>
        THEN Effect(stack, "panic", q, FALSE, Nil, notifyTaskEvent(start, ks), h, TRUE)
        ELSE LET jt == step.JobPayload[1].Type
             IN  IF jt \in {JobGitPull, JobUnitTest, JobCodeCheck}
                 THEN Effect(stack, jt, q, FALSE, Nil, notifyTaskEvent(start, ks),
                             h \cup {Call(jt, tid, q, Nil)}, FALSE)
                 ELSE StepReturn(desc, tid, stack, q, Nil, start, h, ks)

\* runStep, worker.go:185-209, up to the point where a handler runs.
RunStep(desc, tid, stack, q, ks) ==
    LET step == StepAt(desc, q)
        h == {Call("runStep", tid, q, Nil)}
    IN  IF step.Type = StepTypeJob
        THEN IF JobPayloadAbsent(step)
             THEN StepReturn(desc, tid, stack, q, Err("JobPayloadNil", step.Name), <<>>, h,
                             <<>>)
             ELSE LET r == RunJob(desc, tid, stack, q, ks) IN [r EXCEPT !.h = h \cup @]
        ELSE IF step.Type = StepTypeSubPipeline
        THEN IF SubPipelineAbsent(step)
             THEN StepReturn(desc, tid, stack, q, Err("SubPipelineNil", step.Name), <<>>, h,
                             <<>>)
             ELSE IF step.SubPipeline = <<>>
                  THEN Effect(stack, "panic", q, FALSE, Nil, <<>>, h, TRUE)
                  ELSE LET r == EnterTask(desc, tid, stack, q) IN [r EXCEPT !.h = h \cup @]
        ELSE StepReturn(desc, tid, stack, q, Nil, <<>>, h, <<>>)

\* The threads after goroutine tid took the step described by effect r. A worker's
\* goroutine that leaves runTask is back in work() holding the result; a goroutine
\* of an errgroup records its error once (errgroup.Go) and ends.
Settle(tid, r) ==
    LET me == threads[tid]
        parent == Front(tid)
        rest == DOMAIN threads \ {tid}
    IN  IF ~r.exit
        THEN [threads EXCEPT ![tid] = Thread(me.pid, r.stack, r.pc, r.step, Nil)]
        ELSE IF Len(tid) = 1
        THEN [threads EXCEPT ![tid] = Thread(me.pid, <<>>, "done", <<>>, r.err)]
        ELSE [t \in rest |->
                IF t = parent /\ threads[t].stack # <<>>
                THEN LET k == Len(threads[t].stack)
                         f == threads[t].stack[k]
                     IN  [threads[t] EXCEPT
                            !.stack[k].done = f.done + 1,
                            !.stack[k].egErr = IF f.egErr = Nil THEN r.err ELSE f.egErr]
                ELSE threads[t]]

\* The step of goroutine tid with effect r: threads, reports, calls, and the
\* process ends on a panic.
Apply(tid, r) ==
    /\ threads' = Settle(tid, r)
    /\ events' = [events EXCEPT ![threads[tid].pid] = @ \o r.ev]
    /\ hist' = [hist EXCEPT ![threads[tid].pid] = @ \cup r.h]
    /\ crashed' = r.panic

DescOf(tid) == feed[threads[tid].pid].Desc
TopFrame(tid) == Last(threads[tid].stack)
TopDesc(tid) == DescAt(DescOf(tid), TopFrame(tid).path)

(****************************** Worker Pool ********************************)
\* work, worker.go:145-149: a task is received, Running is reported and runTask
\* is entered for the task's pipeline.
Receive(w) ==
    /\ ~crashed
    /\ <<w>> \notin DOMAIN threads
    /\ taskChan # <<>>
    /\ LET m == Head(taskChan)
           r == EnterTask(m.task.Desc, <<>>, <<>>, <<>>)
       IN  /\ \E ks \in ReplyChoices(m.pid, 1) :
                events' = [events EXCEPT ![m.pid] =
                  @ \o notifyTaskEvent(<<TaskUpdate(TestTaskStatusRunning, Nil)>>, ks)]
           /\ threads' = [t \in DOMAIN threads \cup {<<w>>} |->
                            IF t = <<w>>
                            THEN IF r.exit THEN Thread(m.pid, <<>>, "done", <<>>, r.err)
                                 ELSE Thread(m.pid, r.stack, r.pc, r.step, Nil)
                            ELSE threads[t]]
           /\ hist' = [hist EXCEPT ![m.pid] = @ \cup {Call("work", <<>>, <<>>, Nil)} \cup r.h]
    /\ taskChan' = Tail(taskChan)
    /\ UNCHANGED <<feed, option, coordinator, pushed, faults, queue, runners, crashed>>

\* work, worker.go:150-154: the terminal report, then the loop receives again.
Report(w) ==
    /\ ~crashed
    /\ <<w>> \in DOMAIN threads
    /\ threads[<<w>>].pc = "done"
    /\ LET me == threads[<<w>>]
       IN  /\ \E ks \in ReplyChoices(me.pid, 1) :
                events' = [events EXCEPT ![me.pid] =
                  @ \o notifyTaskEvent(<<IF me.res # Nil
                                         THEN TaskUpdate(TestTaskStatusFailed, me.res)
                                         ELSE TaskUpdate(TestTaskStatusSuccess, Nil)>>, ks)]
           /\ hist' = [hist EXCEPT ![me.pid] = @ \cup {Call("work.ret", <<>>, <<>>, me.res)}]
    /\ threads' = [t \in DOMAIN threads \ {<<w>>} |-> threads[t]]
    /\ UNCHANGED <<feed, option, coordinator, pushed, faults, queue, taskChan, runners, crashed>>

\* runTask, worker.go:160,166: the sequential loop calls runStep for step i.
SeqStep(tid) ==
    /\ ~crashed
    /\ threads[tid].pc = "loop"
    /\ ~TopDesc(tid).Parallel
    /\ \E ks \in ReplyChoices(threads[tid].pid, 1) :
         Apply(tid, RunStep(DescOf(tid), Rel(tid), threads[tid].stack,
                            Append(TopFrame(tid).path, TopFrame(tid).i), ks))
    /\ UNCHANGED <<feed, option, coordinator, pushed, faults, queue, taskChan, runners>>

(****************************** Job handlers *******************************)
\* gitPull, worker.go:282-312: the payload is decoded, CloneOrPull runs, and the
\* deferred function reports the step Success or Failed.
GitPull(tid) ==
    /\ ~crashed
    /\ threads[tid].pc = JobGitPull
    /\ LET q == threads[tid].step
           step == StepAt(DescOf(tid), q)
       IN  \E cloned \in BOOLEAN :
             LET e == IF step.JobPayload[1].Payload = "bad" THEN Err("Decode", step.Name)
                      ELSE IF cloned THEN Nil ELSE Err("CloneOrPull", step.Name)
                 st == IF e # Nil THEN TestStepStatusFailed ELSE TestStepStatusSuccess
             IN  \E ks \in ReplyChoices(threads[tid].pid, 1) :
                   Apply(tid, StepReturn(DescOf(tid), Rel(tid), threads[tid].stack, q, e,
                              <<StepUpdate(Rel(tid), q, step.Name, st, progressNone, e)>>,
                              {Call("handler.ret", Rel(tid), q, e)}, ks))
    /\ UNCHANGED <<feed, option, coordinator, pushed, faults, queue, taskChan, runners>>

CodeCheckResultLint(lint) == lint
\* codeCheck, worker.go:405: the result is nil whatever linter.Lint returned.
CodeCheckResult(lint) == Nil

\* codeCheck, worker.go:387-406: the findings are reported with status Running,
\* then one progress marker says whether the scan errored; the result is nil.
CodeCheck(tid) ==
    /\ ~crashed
    /\ threads[tid].pc = JobCodeCheck
    /\ LET q == threads[tid].step
           step == StepAt(DescOf(tid), q)
       IN  \E lintErr \in BOOLEAN :
             LET lint == IF lintErr THEN Err("Lint", step.Name) ELSE Nil
             IN  \E ks \in ReplyChoices(threads[tid].pid, 2) :
                 Apply(tid, StepReturn(DescOf(tid), Rel(tid), threads[tid].stack, q,
                 CodeCheckResult(lint),
                 <<StepUpdate(Rel(tid), q, step.Name, TestStepStatusRunning, progressNone, Nil),
                   IF lint # Nil
                   THEN Progress(Rel(tid), q, step.Name, TestStepStatusFailed, progressFailed,
                                 lint)
                   ELSE Progress(Rel(tid), q, step.Name, TestStepStatusSuccess, progressSuccess,
                                 Nil)>>,
                 {Call("Lint.ret", Rel(tid), q, lint),
                  Call("handler.ret", Rel(tid), q, CodeCheckResult(lint))}, ks))
    /\ UNCHANGED <<feed, option, coordinator, pushed, faults, queue, taskChan, runners>>

(**************************** Process Supervisor ***************************)
\* The goroutine of worker.go:351-354 with the process it runs and finishChan
\* (worker.go:348, one slot): pc is "run" while cmd.Run has not returned, "send"
\* before the send of its result res, "cleanup" before the credential removal,
\* then "done"; sup says that unitTest has not returned yet; chunks counts the log
\* chunks received from the printer, which is dropped when unitTest returns;
\* cleanup is the outcome of the credential removal, "none" while it has not run.
Runner(pid, tid, q) ==
    [pid |-> pid, tid |-> tid, step |-> q, pc |-> "run", res |-> Nil, buf |-> <<>>,
     closed |-> FALSE, sup |-> TRUE, chunks |-> 0, cleanup |-> "none"]

\* The runner that the unitTest call of goroutine tid supervises.
RunnerOf(tid) ==
    CHOOSE r \in runners : r.tid = Rel(tid) /\ r.pid = threads[tid].pid /\ r.sup

UnitTestDeferredInverted(tid, q, name, e) ==
    IF e = Nil
    THEN <<StepUpdate(tid, q, name, TestStepStatusFailed, progressNone, Nil),
           Progress(tid, q, name, TestTaskStatusFailed, progressFailed, e)>>
    ELSE <<StepUpdate(tid, q, name, TestTaskStatusSuccess, progressNone, Nil),
           Progress(tid, q, name, TestTaskStatusFailed, progressSuccess, Nil)>>
\* The deferred function of unitTest, worker.go:318-328: the step's status with the
\* whole transcript, then a progress marker.
UnitTestDeferred(tid, q, name, e) ==
    IF e # Nil
    THEN <<StepUpdate(tid, q, name, TestStepStatusFailed, progressNone, Nil),
           Progress(tid, q, name, TestTaskStatusFailed, progressFailed, e)>>
    ELSE <<StepUpdate(tid, q, name, TestTaskStatusSuccess, progressNone, Nil),
           Progress(tid, q, name, TestTaskStatusFailed, progressSuccess, Nil)>>

\* unitTest returns e on goroutine tid.
UnitTestReturn(tid, e) ==
    LET q == threads[tid].step
        name == StepAt(DescOf(tid), q).Name
    IN  \E ks \in ReplyChoices(threads[tid].pid, 2) :
          Apply(tid, StepReturn(DescOf(tid), Rel(tid), threads[tid].stack, q, e,
                                UnitTestDeferred(Rel(tid), q, name, e),
                                {Call("handler.ret", Rel(tid), q, e)}, ks))

\* unitTest, worker.go:314-354: the payload and the git URL are parsed (an error
\* returns at once), the command is built and the runner goroutine is started.
UnitTestStart(tid) ==
    /\ ~crashed
    /\ threads[tid].pc = JobUnitTest
    /\ LET q == threads[tid].step
           step == StepAt(DescOf(tid), q)
           task == feed[threads[tid].pid]
       IN  IF step.JobPayload[1].Payload = "bad"
           THEN UnitTestReturn(tid, Err("Decode", step.Name)) /\ UNCHANGED runners
           ELSE IF task.GitUrl = "bad"
           THEN UnitTestReturn(tid, Err("InvalidGitUrl", step.Name)) /\ UNCHANGED runners
           ELSE /\ threads' = [threads EXCEPT ![tid].pc = "select"]
                /\ runners' = runners \cup {Runner(threads[tid].pid, Rel(tid), q)}
                /\ UNCHANGED <<events, hist, crashed>>
    /\ UNCHANGED <<feed, option, coordinator, pushed, faults, queue, taskChan>>

\* worker.go:352: cmd.Run returns because the process exited, with status 0 or not.
ProcExit(r) ==
    /\ ~crashed
    /\ r.pc = "run"
    /\ \E ok \in BOOLEAN :
         runners' = (runners \ {r}) \cup
            {[r EXCEPT !.pc = "send",
                       !.res = IF ok THEN Nil
                               ELSE Err("ExitStatus", StepAt(feed[r.pid].Desc, r.step).Name)]}
    /\ UNCHANGED <<feed, option, coordinator, pushed, faults, queue, taskChan, threads, events, hist,
                   crashed>>

\* worker.go:352: the result is sent on finishChan; a send on a closed channel
\* panics, and nothing recovers it.
RunnerSend(r) ==
    /\ ~crashed
    /\ r.pc = "send"
    /\ IF r.closed
       THEN /\ crashed' = TRUE
            /\ runners' = (runners \ {r}) \cup {[r EXCEPT !.pc = "panic"]}
       ELSE /\ crashed' = crashed
            /\ runners' = (runners \ {r}) \cup {[r EXCEPT !.pc = "cleanup", !.buf = <<r.res>>]}
    /\ UNCHANGED <<feed, option, coordinator, pushed, faults, queue, taskChan, threads, events, hist>>

\* The programs exec.Command can start on the worker's host.
Programs == {"sh", "git", "go"}
\* exec.Command(name, arg...).Run(): the first element names the program; Run fails
\* when no such program exists.
CommandRuns(argv) == argv # <<>> /\ argv[1] \in Programs
\* worker.go:353: the whole command line, blanks included, is the one argument of
\* exec.Command, hence the program's name.
CleanupArgv == <<"git config --global --remove-section url">>

\* worker.go:353: the credential-removal command is run and its error dropped.
RunnerCleanup(r) ==
    /\ ~crashed
    /\ r.pc = "cleanup"
    /\ runners' = (runners \ {r}) \cup
          {[r EXCEPT !.pc = "done",
                     !.cleanup = IF CommandRuns(CleanupArgv) THEN "removed" ELSE "failed"]}
    /\ UNCHANGED <<feed, option, coordinator, pushed, faults, queue, taskChan, threads, events, hist,
                   crashed>>

\* worker.go:358-360: the printer has a chunk of the process's output ready on
\* printer.C; select takes it and it is forwarded with status Running.
SelectLogs(tid) ==
    /\ ~crashed
    /\ threads[tid].pc = "select"
    /\ LET r == RunnerOf(tid)
           q == threads[tid].step
       IN  /\ r.chunks < MaxChunks
           /\ runners' = (runners \ {r}) \cup {[r EXCEPT !.chunks = @ + 1]}
           /\ \E ks \in ReplyChoices(threads[tid].pid, 1) :
                events' = [events EXCEPT ![threads[tid].pid] =
                  @ \o notifyTaskEvent(<<StepUpdate(Rel(tid), q, StepAt(DescOf(tid), q).Name,
                                                    TestStepStatusRunning, progressNone,
                                                    Nil)>>, ks)]
    /\ UNCHANGED <<feed, option, coordinator, pushed, faults, queue, taskChan, threads, hist, crashed>>

\* cmd.Process.Kill, worker.go:364: it fails once cmd.Run has waited for the process.
KillSucceeds(r) == r.pc = "run"

\* worker.go:362-370: the timer fired and select took it: finishChan is closed and
\* the process killed; the result is the timeout error, or the kill's error.
SelectTimeout(tid) ==
    /\ ~crashed
    /\ threads[tid].pc = "select"
    /\ LET r == RunnerOf(tid)
           name == StepAt(DescOf(tid), threads[tid].step).Name
       IN  IF KillSucceeds(r)
           THEN /\ runners' = (runners \ {r}) \cup
                       {[r EXCEPT !.closed = TRUE, !.sup = FALSE, !.chunks = 0,
                                  !.pc = IF @ = "run" THEN "send" ELSE @,
                                  !.res = IF r.pc = "run" THEN Err("Killed", name) ELSE @]}
                /\ UnitTestReturn(tid, Err("Timeout", name))
           ELSE /\ runners' = (runners \ {r}) \cup {[r EXCEPT !.closed = TRUE, !.sup = FALSE,
                                                     !.chunks = 0]}
                /\ UnitTestReturn(tid, Err("KillFailed", name))
    /\ UNCHANGED <<feed, option, coordinator, pushed, faults, queue, taskChan>>

\* worker.go:372-373: the runner's result is received and returned.
SelectFinish(tid) ==
    /\ ~crashed
    /\ threads[tid].pc = "select"
    /\ LET r == RunnerOf(tid)
       IN  /\ r.buf # <<>>
           /\ runners' = (runners \ {r}) \cup {[r EXCEPT !.buf = <<>>, !.sup = FALSE,
                                                     !.chunks = 0]}
           /\ UnitTestReturn(tid, r.buf[1])
    /\ UNCHANGED <<feed, option, coordinator, pushed, faults, queue, taskChan>>

(*************************** parallel pipelines ****************************)
\* runTask, worker.go:160-164: the loop assigns the next step to the loop variable
\* and eg.Go starts a goroutine for the closure.
Go(tid) ==
    /\ ~crashed
    /\ threads[tid].pc = "loop"
    /\ TopDesc(tid).Parallel
    /\ LET me == threads[tid]
           k == Len(me.stack)
           f == me.stack[k]
           n == Len(TopDesc(tid).Steps)
           kid == Append(tid, f.i + 1)
       IN  /\ f.i < n
           /\ threads' = [t \in DOMAIN threads \cup {kid} |->
                            IF t = kid THEN Thread(me.pid, <<>>, "spawned", <<>>, Nil)
                            ELSE IF t = tid
                            THEN [me EXCEPT !.stack[k].i = f.i + 1,
                                            !.pc = IF f.i + 1 = n THEN "wait" ELSE "loop"]
                            ELSE threads[t]]
           /\ hist' = [hist EXCEPT ![me.pid] = @ \cup {Call("go", Rel(kid), f.path, Nil)}]
    /\ UNCHANGED <<feed, option, coordinator, pushed, faults, queue, taskChan, runners, events, crashed>>

\* The closure of worker.go:162-164 reads the loop variable `step` of the enclosing
\* runTask when it runs: the step the loop has assigned last, which is the
\* goroutine's own step only if the loop has not moved on (one variable per loop
\* before Go 1.22; the read races with the loop's next assignment).
Captured(tid) == Last(threads[Front(tid)].stack).i

\* The goroutine started by eg.Go runs the closure: runStep of the captured step.
ChildRun(tid) ==
    /\ ~crashed
    /\ threads[tid].pc = "spawned"
    /\ Front(tid) \in DOMAIN threads
    /\ threads[Front(tid)].stack # <<>>
    /\ \E ks \in ReplyChoices(threads[tid].pid, 1) :
         Apply(tid, RunStep(DescOf(tid), Rel(tid), <<>>,
                            Append(Last(threads[Front(tid)].stack).path, Captured(tid)), ks))
    /\ UNCHANGED <<feed, option, coordinator, pushed, faults, queue, taskChan, runners>>

WaitDoneFirst(f) == f.done >= 1
\* eg.Wait, worker.go:177: every goroutine started by eg.Go has returned.
WaitDone(f) == f.done = f.i

\* runTask, worker.go:177-182: eg.Wait returns the first error recorded.
Wait(tid) ==
    /\ ~crashed
    /\ threads[tid].pc = "wait"
    /\ WaitDone(TopFrame(tid))
    /\ LET f == TopFrame(tid)
           r == Unwind(DescOf(tid), Rel(tid), Front(threads[tid].stack), f.egErr)
       IN  Apply(tid, [r EXCEPT !.h = @ \cup {Call("runTask.ret", Rel(tid), f.path, f.egErr)}
                                    \cup (IF f.path = <<>> THEN {}
                                          ELSE {Call("runStep.ret", Rel(tid), f.path,
                                                     f.egErr)})])
    /\ UNCHANGED <<feed, option, coordinator, pushed, faults, queue, taskChan, runners>>

Next ==
    \/ Push
    \/ Damage
    \/ PullEmpty
    \/ PullIOError
    \/ PullCorrupt
    \/ PullTask
    \/ \E w \in Workers : Receive(w)
    \/ \E w \in Workers : Report(w)
    \/ \E tid \in DOMAIN threads : SeqStep(tid)
    \/ \E tid \in DOMAIN threads : GitPull(tid)
    \/ \E tid \in DOMAIN threads : CodeCheck(tid)
    \/ \E tid \in DOMAIN threads : Go(tid)
    \/ \E tid \in DOMAIN threads : ChildRun(tid)
    \/ \E tid \in DOMAIN threads : Wait(tid)
    \/ \E tid \in DOMAIN threads : UnitTestStart(tid)
    \/ \E r \in runners : ProcExit(r)
    \/ \E r \in runners : RunnerSend(r)
    \/ \E r \in runners : RunnerCleanup(r)
    \/ \E tid \in DOMAIN threads : SelectLogs(tid)
    \/ \E tid \in DOMAIN threads : SelectTimeout(tid)
    \/ \E tid \in DOMAIN threads : SelectFinish(tid)

Spec == Init /\ [][Next]_vars
SpecPipe == InitPipe /\ [][Next]_vars
SpecReport == InitReport /\ [][Next]_vars

(******************************** claims ***********************************)
Handlers == {JobGitPull, JobUnitTest, JobCodeCheck}
DescOfPid(pid) == feed[pid].Desc
Terminal(e) == e.ev = "task" /\ e.status \in {TestTaskStatusSuccess, TestTaskStatusFailed}
Finished(pid) == \E c \in hist[pid] : c.op = "work.ret"

\* C1: in a sequential pipeline, once runStep of step i has returned an error, runStep
\* is invoked for no later step of that pipeline run, and runTask returns that
\* very error.
C1_SequentialStopsAtFirstError ==
    \A pid \in Pids : \A c \in hist[pid] :
      (c.op = "runStep.ret" /\ c.err # Nil
         /\ ~DescAt(DescOfPid(pid), Front(c.path)).Parallel)
      => /\ \A d \in hist[pid] :
              ~(d.op = "runStep" /\ d.tid = c.tid /\ Len(d.path) = Len(c.path)
                /\ Front(d.path) = Front(c.path) /\ Last(d.path) > Last(c.path))
         /\ \E d \in hist[pid] :
              d.op = "runTask.ret" /\ d.tid = c.tid /\ d.path = Front(c.path)
         /\ \A d \in hist[pid] :
              (d.op = "runTask.ret" /\ d.tid = c.tid /\ d.path = Front(c.path))
              => d.err = c.err

\* A sequential pipeline whose first step failed while a later step exists, and the
\* task has been reported.
C1_Witness ==
    \E pid \in Pids : \E c \in hist[pid] :
      /\ c.op = "runStep.ret" /\ c.err # Nil /\ c.path = <<1>>
      /\ ~DescOfPid(pid).Parallel
      /\ Len(DescOfPid(pid).Steps) > 1
      /\ Finished(pid)

\* The goroutines a parallel runTask run started, and the runStep results of its
\* goroutines.
Launched(pid, c) ==
    {d \in hist[pid] : d.op = "go" /\ d.path = c.path /\ Front(d.tid) = c.tid}
KidResults(pid, c) ==
    {d \in hist[pid] : /\ d.op = "runStep.ret" /\ d.tid # <<>> /\ Front(d.tid) = c.tid
                       /\ Len(d.path) = Len(c.path) + 1 /\ Front(d.path) = c.path}

\* C2: a parallel runTask returns only after every goroutine it started has returned
\* from runStep; if some of them returned errors, the result is one of those errors.
C2_ParallelWaitsForAll ==
    \A pid \in Pids : \A c \in hist[pid] :
      (c.op = "runTask.ret" /\ DescAt(DescOfPid(pid), c.path).Parallel)
      => LET kids == Launched(pid, c)
             rets == KidResults(pid, c)
             failed == {d \in rets : d.err # Nil}
         IN  /\ Cardinality(kids) = Len(DescAt(DescOfPid(pid), c.path).Steps)
             /\ \A k \in kids : \E d \in rets : d.tid = k.tid
             /\ failed # {} => c.err # Nil /\ \E d \in failed : d.err = c.err

\* A parallel pipeline returned with one step failed and another succeeded.
C2_Witness ==
    \E pid \in Pids : \E c \in hist[pid] :
      /\ c.op = "runTask.ret" /\ DescAt(DescOfPid(pid), c.path).Parallel
      /\ c.err # Nil
      /\ \E d \in KidResults(pid, c) : d.err = Nil
      /\ \E d \in KidResults(pid, c) : d.err # Nil

SuccessEvents(pid, name) ==
    {i \in DOMAIN events[pid] :
        /\ events[pid][i].ev = "step" /\ events[pid][i].step = name
        /\ events[pid][i].status = TestStepStatusSuccess}

\* C3: every step of a parallel pipeline is executed exactly once; for the pipeline
\* [stepX, stepY] with both steps succeeding, one Success event is reported for
\* stepX and one for stepY before the task's Success.
C3_ParallelRunsEachStepOnce ==
    \A pid \in Pids :
      /\ \A c \in hist[pid] :
           (c.op = "runTask.ret" /\ DescAt(DescOfPid(pid), c.path).Parallel)
           => \A j \in 1..Len(DescAt(DescOfPid(pid), c.path).Steps) :
                Cardinality({d \in hist[pid] :
                    /\ d.op = "runStep" /\ d.tid # <<>> /\ Front(d.tid) = c.tid
                    /\ d.path = Append(c.path, j)}) = 1
      /\ (feed[pid] = ScenarioB /\ Finished(pid)
            /\ events[pid][Len(events[pid])].status = TestTaskStatusSuccess)
         => /\ Cardinality(SuccessEvents(pid, "stepX")) = 1
            /\ Cardinality(SuccessEvents(pid, "stepY")) = 1

\* C4: runStep of a Job step without payload, or of a SubPipeline step without nested
\* pipeline, returns an error, and neither runJob, runTask nor a handler is called
\* for that step, and nothing is reported for it.
C4_AbsentPayloadFailsWithoutHandler ==
    \A pid \in Pids : \A c \in hist[pid] :
      c.op = "runStep" =>
        LET step == StepAt(DescOfPid(pid), c.path)
            absentJob == step.Type = StepTypeJob /\ step.JobPayload = <<>>
            absentSub == step.Type = StepTypeSubPipeline /\ step.SubPipeline = <<>>
        IN  (absentJob \/ absentSub) =>
              /\ \E d \in hist[pid] :
                   /\ d.op = "runStep.ret" /\ d.tid = c.tid /\ d.path = c.path
                   /\ d.err = Err(IF absentJob THEN "JobPayloadNil" ELSE "SubPipelineNil",
                                  step.Name)
              /\ \A d \in hist[pid] :
                   (d.op \in Handlers \cup {"runJob", "runTask"}) => ~IsPrefix(c.path, d.path)
              /\ \A i \in DOMAIN events[pid] : events[pid][i].step # step.Name
              /\ ~crashed

\* A task whose Job step has no payload was reported Failed with that step's error.
C4_Witness ==
    \E pid \in Pids :
      /\ feed[pid] = NilJobTask
      /\ Finished(pid)
      /\ events[pid][Len(events[pid])] =
            TaskUpdate(TestTaskStatusFailed, Err("JobPayloadNil", "stepJ"))

\* The unitTest calls in which select took the timer case (only that case closes
\* finishChan).
TimedOut(pid) == {r \in runners : r.pid = pid /\ r.closed}
StepName(pid, q) == StepAt(DescOfPid(pid), q).Name

\* C5: after the test process of a UnitTest step was killed on timeout, the worker
\* process does not crash.
C5_NoCrashAfterTimeoutKill ==
    (\E r \in runners : r.res.kind = "Killed") => ~crashed

\* C6: whenever select takes the timer case, the step's result is the Timeout error,
\* the step is reported Failed, and once the run of the task is over the task has
\* been reported Failed with the timeout error.
C6_TimeoutReportedAsTimeout ==
    \A pid \in Pids : \A r \in TimedOut(pid) :
      LET timeout == Err("Timeout", StepName(pid, r.step))
      IN  /\ Call("runStep.ret", r.tid, r.step, timeout) \in hist[pid]
          /\ \E i \in DOMAIN events[pid] :
               /\ events[pid][i].ev = "step" /\ events[pid][i].step = StepName(pid, r.step)
               /\ events[pid][i].status = TestStepStatusFailed
          /\ (crashed \/ Finished(pid))
             => \E i \in DOMAIN events[pid] :
                  events[pid][i] = TaskUpdate(TestTaskStatusFailed, timeout)

TaskEvents(pid) == SelectSeq(events[pid], LAMBDA e : e.ev = "task")
Received(pid) == \E c \in hist[pid] : c.op = "work"
RunTaskResult(pid) == (CHOOSE c \in hist[pid] : c.op = "work.ret").err

\* C7: the reports of a received task start with Running; once the run is over (the
\* worker is done with the task, or the process has ended) the task-level reports
\* are Running and one terminal report, Success if runTask returned nil and else
\* Failed with runTask's error, and every step-level report lies between them.
C7_TaskReportsComplete ==
    \A pid \in Pids :
      Received(pid) =>
        /\ events[pid] # <<>>
        /\ events[pid][1] = TaskUpdate(TestTaskStatusRunning, Nil)
        /\ Len(TaskEvents(pid)) <= 2
        /\ Len(TaskEvents(pid)) = 2 =>
             /\ Terminal(events[pid][Len(events[pid])])
             /\ Finished(pid)
             /\ events[pid][Len(events[pid])] =
                  IF RunTaskResult(pid) = Nil
                  THEN TaskUpdate(TestTaskStatusSuccess, Nil)
                  ELSE TaskUpdate(TestTaskStatusFailed, RunTaskResult(pid))
        /\ (crashed \/ Finished(pid)) => Len(TaskEvents(pid)) = 2

\* The reports issued by the run of the pipeline at c.path on goroutine c.tid (and
\* the goroutines it started) for step i of that pipeline, by position.
StepEventsOf(pid, c, i) ==
    {k \in DOMAIN events[pid] :
        /\ events[pid][k].ev = "step"
        /\ IsPrefix(c.tid, events[pid][k].tid)
        /\ IsPrefix(Append(c.path, i), events[pid][k].path)}

\* The task-level reports and the step-level reports that carry a final status.
Outcomes(pid) ==
    SelectSeq(events[pid], LAMBDA e : e.ev = "task" \/ e.status # TestStepStatusRunning)
Brief(seq) == [k \in DOMAIN seq |-> <<seq[k].ev, seq[k].step, seq[k].status>>]

\* C8: in every run of a sequential pipeline each report of step i precedes each
\* report of step i+1 (and of every later step); for [stepA(SourceSync),
\* stepB(UnitTest)] with stepA succeeding and stepB's command exiting non-zero the
\* reports are Task Running, stepA Success, stepB Failed, Task Failed, in this order.
C8_SequentialReportOrder ==
    \A pid \in Pids :
      /\ \A c \in hist[pid] :
           (c.op = "runTask" /\ ~DescAt(DescOfPid(pid), c.path).Parallel)
           => \A i, j \in 1..Len(DescAt(DescOfPid(pid), c.path).Steps) :
                i < j => \A a \in StepEventsOf(pid, c, i) :
                           \A b \in StepEventsOf(pid, c, j) : a < b
      /\ (/\ feed[pid] = ScenarioA
          /\ Finished(pid)
          /\ Call("runStep.ret", <<>>, <<1>>, Nil) \in hist[pid]
          /\ Call("runStep.ret", <<>>, <<2>>, Err("ExitStatus", "stepB")) \in hist[pid])
         => Brief(Outcomes(pid)) =
              << <<"task", "", TestTaskStatusRunning>>,
                 <<"step", "stepA", TestStepStatusSuccess>>,
                 <<"step", "stepB", TestStepStatusFailed>>,
                 <<"step", "stepB", TestStepStatusFailed>>,
                 <<"task", "", TestTaskStatusFailed>> >>

\* Scenario A has run to its end: stepA succeeded, stepB's command exited non-zero.
C8_Witness ==
    \E pid \in Pids :
      /\ feed[pid] = ScenarioA
      /\ Finished(pid)
      /\ Call("runStep.ret", <<>>, <<2>>, Err("ExitStatus", "stepB")) \in hist[pid]
      /\ events[pid][Len(events[pid])] =
            TaskUpdate(TestTaskStatusFailed, Err("ExitStatus", "stepB"))

\* The records Push stored, and those the Dispatcher decoded and sent to a worker.
Stored(pid) == Call("Push", <<>>, <<>>, Nil) \in hist[pid]
Dropped(pid) == Call("drop", <<>>, <<>>, Nil) \in hist[pid]
Queued(pid) == \E i \in DOMAIN queue : queue[i].pid = pid
\* The workers that hold the record now.
Holders(pid) == {w \in Workers : <<w>> \in DOMAIN threads /\ threads[<<w>>].pid = pid}
RunningReports(pid) ==
    {i \in DOMAIN events[pid] : events[pid][i] = TaskUpdate(TestTaskStatusRunning, Nil)}
TerminalReports(pid) == {i \in DOMAIN events[pid] : Terminal(events[pid][i])}
\* Nothing is left to do: every push made, the queue drained, no task in flight.
Quiescent ==
    /\ pushed = Len(feed)
    /\ queue = <<>>
    /\ taskChan = <<>>
    /\ DOMAIN threads = {}

\* C9: a record is received once, by one worker (each receipt reports Running), and
\* run at most once; without a crash, when nothing is left to do, every stored
\* record that decoded has been run exactly once, with one Running and one
\* terminal report of its own, also when the same task was pushed twice.
C9_EachRecordRunOnce ==
    \A pid \in Pids :
      /\ Cardinality(Holders(pid)) <= 1
      /\ Cardinality(RunningReports(pid)) <= 1
      /\ Cardinality(TerminalReports(pid)) <= 1
      /\ Holders(pid) # {} => RunningReports(pid) # {} /\ TerminalReports(pid) = {}
      /\ Received(pid) => Stored(pid) /\ ~Dropped(pid) /\ ~Queued(pid)
      /\ (Quiescent /\ ~crashed /\ Stored(pid) /\ ~Dropped(pid))
         => /\ Received(pid)
            /\ Cardinality(RunningReports(pid)) = 1
            /\ Cardinality(TerminalReports(pid)) = 1

\* The same task was pushed twice and each push was run and reported on its own.
C9_Witness ==
    /\ Quiescent
    /\ ~crashed
    /\ \E p1, p2 \in Pids :
         /\ p1 < p2
         /\ feed[p1] = feed[p2]
         /\ Cardinality(TerminalReports(p1)) = 1
         /\ Cardinality(TerminalReports(p2)) = 1

\* The tasks a worker is running, and the records dequeued and decoded whose terminal
\* report has not been issued.
Executing == {t \in DOMAIN threads : Len(t) = 1}
InFlight ==
    {pid \in Pids : Stored(pid) /\ ~Queued(pid) /\ ~Dropped(pid)
                      /\ TerminalReports(pid) = {}}

\* C10: at most ParallelWorker tasks are being run, each by one worker; at most one
\* dequeued task waits in the Dispatcher's send, and while it waits no further
\* record is dequeued; the dequeued tasks not yet terminally reported number at
\* most ParallelWorker + 1.
C10_Backpressure ==
    /\ Cardinality(Executing) <= option.ParallelWorker
    /\ \A t1, t2 \in Executing : threads[t1].pid = threads[t2].pid => t1 = t2
    /\ Len(taskChan) <= 1
    /\ \A k \in DOMAIN taskChan : \A w \in Executing : threads[w].pid # taskChan[k].pid
    /\ Cardinality(InFlight) <= option.ParallelWorker + 1
    /\ InFlight = {threads[t].pid : t \in Executing} \cup {taskChan[k].pid : k \in DOMAIN taskChan}

\* Every worker is running a task and one more waits in the Dispatcher's send.
C10_Witness ==
    /\ Cardinality(Executing) = option.ParallelWorker
    /\ Len(taskChan) = 1
    /\ Cardinality(InFlight) = option.ParallelWorker + 1

\* The runStep calls of a record that returned an error, at any depth.
FailedSteps(pid) == {c \in hist[pid] : c.op = "runStep.ret" /\ c.err # Nil}
\* The returns of the calls that enclose call c: the runTask runs of the pipelines
\* around its step and the runStep calls of the SubPipeline steps around it, on the
\* goroutine of c or on one that started it.
Enclosing(pid, c) ==
    {d \in hist[pid] :
        /\ d.op \in {"runTask.ret", "runStep.ret"}
        /\ IsPrefix(d.tid, c.tid)
        /\ IsPrefix(d.path, c.path)
        /\ d.path # c.path}
LastEvent(pid) == events[pid][Len(events[pid])]

\* C11: when a runStep call at any depth returned an error, every enclosing runStep
\* and runTask call returns an error, and once the run of the task is over the task
\* has been reported Failed; a task is reported Success only if no runStep call of
\* it returned an error.
C11_FailurePropagatesToTop ==
    \A pid \in Pids :
      /\ \A c \in FailedSteps(pid) :
           /\ \A d \in Enclosing(pid, c) : d.err # Nil
           /\ (crashed \/ Finished(pid))
              => /\ events[pid] # <<>>
                 /\ LastEvent(pid).ev = "task"
                 /\ LastEvent(pid).status = TestTaskStatusFailed
      /\ (\E i \in DOMAIN events[pid] :
             events[pid][i].ev = "task" /\ events[pid][i].status = TestTaskStatusSuccess)
         => FailedSteps(pid) = {}

\* The step-level reports that goroutine c.tid issued for the step at c.path.
ReportsOfCall(pid, c) ==
    SelectSeq(events[pid], LAMBDA e : e.ev = "step" /\ e.tid = c.tid /\ e.path = c.path)
IsJobOf(pid, path, jobType) ==
    LET step == StepAt(DescOfPid(pid), path)
    IN  step.Type = StepTypeJob /\ step.JobPayload # <<>>
        /\ step.JobPayload[1].Type = jobType

\* C12: a CodeCheck step returns no error whether or not the scan errored; after the
\* start marker of runJob the handler reports one Running update and then one
\* progress marker, failed if the scan errored and success otherwise; a sequential
\* pipeline goes on to the step after it.
C12_CodeCheckNeverFails ==
    \A pid \in Pids : \A c \in hist[pid] :
      (c.op = "runStep.ret" /\ IsJobOf(pid, c.path, JobCodeCheck))
      => LET evs == ReportsOfCall(pid, c)
             lint == CHOOSE d \in hist[pid] :
                        d.op = "Lint.ret" /\ d.tid = c.tid /\ d.path = c.path
             desc == DescAt(DescOfPid(pid), Front(c.path))
         IN  /\ c.err = Nil
             /\ Len(evs) = 3
             /\ evs[1].marker = progressStart
             /\ evs[2].status = TestStepStatusRunning /\ evs[2].marker = progressNone
             /\ evs[3].marker = IF lint.err # Nil THEN progressFailed ELSE progressSuccess
             /\ evs[3].status = IF lint.err # Nil THEN TestStepStatusFailed
                                ELSE TestStepStatusSuccess
             /\ (/\ ~desc.Parallel
                 /\ Last(c.path) < Len(desc.Steps)
                 /\ \E d \in hist[pid] :
                      d.op = "runTask.ret" /\ d.tid = c.tid /\ d.path = Front(c.path))
                => \E d \in hist[pid] :
                     /\ d.op = "runStep" /\ d.tid = c.tid
                     /\ d.path = Append(Front(c.path), Last(c.path) + 1)

\* The scan of a CodeCheck step errored, the step after it ran and the task was
\* reported Success.
C12_Witness ==
    \E pid \in Pids :
      /\ feed[pid] = CheckThenPull
      /\ Call("Lint.ret", <<>>, <<1>>, Err("Lint", "stepC")) \in hist[pid]
      /\ Call("runStep.ret", <<>>, <<2>>, Nil) \in hist[pid]
      /\ Finished(pid)
      /\ LastEvent(pid) = TaskUpdate(TestTaskStatusSuccess, Nil)

\* The runner goroutine takes no further step: it has ended, or the process has.
RunnerStopped(r) == crashed \/ r.pc \in {"done", "panic"}

\* C13: for every test process that was started and has ended (by exiting or by
\* being killed), once its runner goroutine takes no further step the
\* credential-removal command has been executed.
C13_CleanupAlwaysRuns ==
    \A r \in runners : (r.pc # "run" /\ RunnerStopped(r)) => r.cleanup # "none"

\* The positions of the reports that belong to the execution of the step at c.path
\* started on goroutine c.tid: its own and those of everything nested in it.
EventsUnder(pid, c) ==
    {k \in DOMAIN events[pid] :
        /\ events[pid][k].ev = "step"
        /\ IsPrefix(c.tid, events[pid][k].tid)
        /\ IsPrefix(c.path, events[pid][k].path)}
StartMarkers(pid, c) ==
    {k \in DOMAIN events[pid] :
        /\ events[pid][k].ev = "step"
        /\ events[pid][k].tid = c.tid /\ events[pid][k].path = c.path
        /\ events[pid][k].step = StepName(pid, c.path)
        /\ events[pid][k].marker = progressStart}

\* C14: for every step that is executed, a Job step (runJob is called) as well as a
\* SubPipeline step (runTask is called for its nested pipeline), a start marker with
\* the step's name is reported, before every other report of that step.
C14_StartMarkerBeforeEveryStep ==
    \A pid \in Pids : \A c \in hist[pid] :
      (c.op = "runJob" \/ (c.op = "runTask" /\ c.path # <<>>))
      => \E k \in StartMarkers(pid, c) : \A j \in EventsUnder(pid, c) : k <= j

\* The result of the task's outermost runTask call.
RootResults(pid) ==
    {c.err : c \in {d \in hist[pid] : d.op = "runTask.ret" /\ d.tid = <<>> /\ d.path = <<>>}}

\* C15: whatever the coordinator answers to the report requests (properly, with a
\* transport error, with an undecodable body or with a non-zero code), every step's
\* result is the result of its handler, a sequential pipeline whose step returned no
\* error goes on to the next step, and the terminal report is Success exactly when
\* the outermost runTask returned no error, and else Failed with that error.
C15_ReportsDoNotInfluenceExecution ==
    \A pid \in Pids :
      /\ \A c \in hist[pid] :
           (c.op = "runStep.ret" /\ \E jt \in Handlers : IsJobOf(pid, c.path, jt))
           => /\ \E d \in hist[pid] :
                   d.op = "handler.ret" /\ d.tid = c.tid /\ d.path = c.path /\ d.err = c.err
              /\ LET desc == DescAt(DescOfPid(pid), Front(c.path))
                 IN  (/\ c.err = Nil
                      /\ ~desc.Parallel
                      /\ Last(c.path) < Len(desc.Steps)
                      /\ \E d \in hist[pid] :
                           d.op = "runTask.ret" /\ d.tid = c.tid /\ d.path = Front(c.path))
                     => \E d \in hist[pid] :
                          /\ d.op = "runStep" /\ d.tid = c.tid
                          /\ d.path = Append(Front(c.path), Last(c.path) + 1)
      /\ Finished(pid)
         => /\ LastEvent(pid).ev = "task"
            /\ \A e \in RootResults(pid) :
                 /\ LastEvent(pid).status =
                      IF e = Nil THEN TestTaskStatusSuccess ELSE TestTaskStatusFailed
                 /\ LastEvent(pid).msg = e
            /\ RootResults(pid) # {}

\* A task was reported Success although one of its report requests was not answered
\* properly.
C15_Witness ==
    \E pid \in Pids :
      /\ Finished(pid)
      /\ LastEvent(pid).status = TestTaskStatusSuccess
      /\ \E i \in DOMAIN events[pid] :
           events[pid][i].ev = "step" /\ events[pid][i].reply # "ok"

\* The record waits in the Dispatcher's send.
InChan(pid) == \E k \in DOMAIN taskChan : taskChan[k].pid = pid
\* The Dispatcher has sent, or is sending, the record on taskChan.
Forwarded(pid) == InChan(pid) \/ Received(pid)

\* C16: records leave the queue in the order of their pushes, so a record is
\* forwarded only after every stored record pushed before it was forwarded or
\* dropped, and it waits in the send only when the earlier ones were received; a
\* dropped record is neither forwarded nor queued again nor reported.
C16_DispatchInPushOrder ==
    /\ \A i, j \in DOMAIN queue : i < j => queue[i].pid < queue[j].pid
    /\ \A p, q \in Pids :
         (p < q /\ Stored(p) /\ Stored(q))
         => /\ Queued(p) => Queued(q)
            /\ Forwarded(q) => Forwarded(p) \/ Dropped(p)
            /\ InChan(q) => Received(p) \/ Dropped(p)
    /\ \A p \in Pids :
         Dropped(p) => ~Queued(p) /\ ~Forwarded(p) /\ events[p] = <<>>

\* A record was dropped and a record pushed after it was forwarded and run.
C16_Witness ==
    \E p, q \in Pids :
      /\ p < q
      /\ Dropped(p)
      /\ Received(q)
      /\ Finished(q)

\* The Go scheduler runs every goroutine that can take a step: the Dispatcher, the
\* workers, the goroutines of the executor and the runner goroutines; a pending
\* select returns at the latest when the timer fires (worker.go:349, 362). Nothing is
\* assumed of the callers of Push, of the storage, or of the test process.
Fairness ==
    /\ WF_vars(PullCorrupt)
    /\ WF_vars(PullTask)
    /\ WF_vars(\E w \in Workers : Receive(w))
    /\ WF_vars(\E w \in Workers : Report(w))
    /\ WF_vars(\E tid \in DOMAIN threads : SeqStep(tid))
    /\ WF_vars(\E tid \in DOMAIN threads : GitPull(tid))
    /\ WF_vars(\E tid \in DOMAIN threads : CodeCheck(tid))
    /\ WF_vars(\E tid \in DOMAIN threads : Go(tid))
    /\ WF_vars(\E tid \in DOMAIN threads : ChildRun(tid))
    /\ WF_vars(\E tid \in DOMAIN threads : Wait(tid))
    /\ WF_vars(\E tid \in DOMAIN threads : UnitTestStart(tid))
    /\ WF_vars(\E tid \in DOMAIN threads : SelectTimeout(tid) \/ SelectFinish(tid))
    /\ WF_vars(\E r \in runners : RunnerSend(r))
    /\ WF_vars(\E r \in runners : RunnerCleanup(r))

SpecLive == Init /\ [][Next]_vars /\ Fairness

\* C17: under fair scheduling every stored record is eventually dropped as
\* undecodable or reported with a terminal status.
C17_EveryTaskEventuallyReported ==
    \A pid \in 1..MaxPush :
      (pid \in Pids /\ Stored(pid)) ~> (Dropped(pid) \/ TerminalReports(pid) # {})

\* The step invariant: a Job step has a payload and no nested pipeline, a SubPipeline
\* step a nested pipeline and no payload; there is no other type.
WellFormed(step) ==
    \/ step.Type = StepTypeJob /\ step.JobPayload # <<>> /\ step.SubPipeline = <<>>
    \/ step.Type = StepTypeSubPipeline /\ step.SubPipeline # <<>> /\ step.JobPayload = <<>>

\* C18: runStep of a step that breaks the step invariant, in any of its shapes,
\* returns an error, and neither runJob, runTask nor a handler is called for it.
C18_MalformedStepFails ==
    \A pid \in Pids : \A c \in hist[pid] :
      (c.op = "runStep" /\ ~WellFormed(StepAt(DescOfPid(pid), c.path)))
      => /\ \E d \in hist[pid] :
              d.op = "runStep.ret" /\ d.tid = c.tid /\ d.path = c.path /\ d.err # Nil
         /\ \A d \in hist[pid] :
              (d.op \in Handlers \cup {"runJob", "runTask"}) => ~IsPrefix(c.path, d.path)

\* C19: when unitTest has returned, the last report of its step carries status
\* Success if it returned no error and Failed if it returned an error, and no report
\* of a step whose unitTest returned no error carries status Failed.
C19_UnitTestLastStatusMatches ==
    \A pid \in Pids : \A c \in hist[pid] :
      (c.op = "handler.ret" /\ IsJobOf(pid, c.path, JobUnitTest))
      => LET evs == ReportsOfCall(pid, c)
         IN  /\ evs # <<>>
             /\ evs[Len(evs)].status =
                  IF c.err = Nil THEN TestStepStatusSuccess ELSE TestStepStatusFailed
             /\ c.err = Nil => \A i \in DOMAIN evs : evs[i].status # TestStepStatusFailed

\* The test processes that ended by themselves (cmd.Run returned their exit outcome)
\* and whose unitTest call has returned.
Completed(pid) ==
    {r \in runners : r.pid = pid /\ r.pc # "run" /\ r.res.kind # "Killed" /\ ~r.sup}

\* C20: when the test process ended by itself, unitTest returns the process's exit
\* outcome: nil for status 0 and else the command's failure, never the timeout
\* error or the error of a failed kill.
C20_CompletedRunKeepsItsOutcome ==
    \A pid \in Pids : \A r \in Completed(pid) :
      /\ Call("handler.ret", r.tid, r.step, r.res) \in hist[pid]
      /\ \A c \in hist[pid] :
           (c.op = "handler.ret" /\ c.tid = r.tid /\ c.path = r.step)
           => c.err.kind \notin {"Timeout", "KillFailed"}

====
